---- MODULE Spec2Model ----
(***************************************************************************)
(* Model of the gemini-research MCP server (mcp-server.ts, the version     *)
(* whose start_deep_research takes an output_path): the in-memory job      *)
(* store, the background research task started by start_deep_research,     *)
(* and the request handlers that read the store.                           *)
(*                                                                         *)
(* JavaScript runs every synchronous stretch of code to completion, so one *)
(* action of the model is one such stretch: a whole request handler, or    *)
(* the part of performDeepResearch between two awaits (with its catch      *)
(* block and the .catch reaction when the stretch throws).                 *)
(***************************************************************************)
EXTENDS Integers, Sequences, FiniteSets, TLC

VARIABLES
    jobs,        \* the Map `jobs`: job id -> ResearchJob
    task,        \* per job: where its performDeepResearch call stands
    files,       \* the disk: path -> content written by writeFileSync
    issued,      \* upstream calls issued so far
    last,        \* the last tool call handled and the response it returned
    polled,      \* per job: what check_research_status responses have shown
    writeLog,    \* per job: the values assigned to job.status after creation
    unhandled,   \* TRUE once a promise rejection had no handler
    fanout,      \* the generate_articles call in flight, if any
    batch        \* the generate_images call in flight, if any

vars == <<jobs, task, files, issued, last, polled, writeLog, unhandled, fanout, batch>>

\* the state owned by the two generators
genVars == <<fanout, batch>>

-----------------------------------------------------------------------------
(* Bounds of the model *)

\* number of start_deep_research calls explored
MaxJobs == 1

\* longest prompts list given to generate_images
MaxPrompts == 3

\* longest draft given to assemble_markdown, in segments (see Segments)
MaxSegments == 4

\* longest images list given to assemble_markdown
MaxImages == 5

\* config.gemini.research.timeout_seconds / poll_interval_seconds (1800 / 30
\* in the shipped configuration), kept small
MaxPolls == 2

-----------------------------------------------------------------------------
(* Values *)

\* the JavaScript value undefined (also what a missing argument reads as)
UNDEF == "#undefined"

\* undefined where an object is expected (objects carry defined |-> TRUE)
UndefObj == [defined |-> FALSE]

JobIds == {"job_" \o ToString(i) : i \in 1..MaxJobs}

\* job_id arguments a caller may send: ids of the store, an id never issued, none
JobIdArgs == JobIds \cup {"job_unknown", UNDEF}

\* the tools registered with the server
ToolNames ==
    {"start_deep_research", "check_research_status", "get_research_result",
     "generate_articles", "generate_images", "assemble_markdown"}

\* a name a caller may send that is not registered (start_job is the name the
\* design document uses for start_deep_research)
UnknownNames == {"start_job"} \ ToolNames

\* output_path arguments: absent, the empty string, or a path.  The code tests
\* `if (job.outputPath)`, so the empty string behaves as an absent path.
OutputPaths == {UNDEF, "", "out/01-research.md"}

\* a ResearchBrief; a list that is absent is written as the empty list (the
\* code skips both), an absent geographic_focus as UNDEF
Brief ==
    [defined |-> TRUE,
     topic |-> "AI agents",
     core_questions |-> <<"What changed in 2025?", "Who adopts them?">>,
     perspectives |-> <<"vendors">>,
     dimensions |-> <<"cost", "safety">>,
     evidence_types |-> <<"benchmarks">>,
     contexts |-> <<>>,
     related_topics |-> <<>>,
     controversies |-> <<"autonomy">>,
     timeframes |-> <<>>,
     geographic_focus |-> "EU"]

ArticleSpecs ==
    [defined |-> TRUE, intent |-> "educate", audience |-> "engineers", format |-> "blog",
     word_count |-> "2000"]

\* the spec argument: absent, without research_brief, or complete
Specs ==
    { UndefObj,
      [defined |-> TRUE, research_brief |-> UndefObj, article_specs |-> ArticleSpecs],
      [defined |-> TRUE, research_brief |-> Brief, article_specs |-> ArticleSpecs] }

\* the spec argument of generate_articles: as above, or without article_specs
ArticleArgs ==
    Specs \cup {[defined |-> TRUE, research_brief |-> Brief, article_specs |-> UndefObj]}

\* config.gemini.models
Models ==
    [pro |-> "gemini-3-pro-preview", flash |-> "gemini-3-flash-preview",
     image |-> "gemini-3-pro-image-preview"]

\* the two generateArticle calls of generate_articles, in Promise.all order
Variants == <<"pro", "flash">>

\* result.text of client.models.generateContent: absent, or an article
ArticleTexts == {UNDEF, "article A", "article B"}

\* filename fields of the image prompts (a list may repeat one)
Filenames == {"hero.png", "section-1.png", "section-2.png"}

RECURSIVE SeqsUpTo(_, _)
\* all lists over S of length at most n
SeqsUpTo(S, n) ==
    IF n = 0 THEN {<<>>}
    ELSE LET shorter == SeqsUpTo(S, n - 1)
         IN  shorter \cup {Append(q, x) : q \in shorter, x \in S}

\* the prompts argument: absent, or a list of ImagePrompt
PromptLists ==
    {[defined |-> FALSE, list |-> <<>>]}
    \cup {[defined |-> TRUE, list |-> [i \in DOMAIN fs |-> [filename |-> fs[i], prompt |-> "a diagram"]]]
            : fs \in SeqsUpTo(Filenames, MaxPrompts)}

OutputDirs == {"out/images"}

\* what a resolved image generation call holds: a part with inlineData, no
\* candidates, parts without inlineData, or a candidate without content
ImageResponses == {"image", "no_candidates", "no_inline", "no_content"}

\* outcomes of writeFileSync for one image
WriteOutcomes == {"ok", "write_fails"}

\* A markdown text is a sequence of characters.  The characters the assembler
\* looks at are kept apart; a run of other characters of one line (a word, a
\* title, an image link) is one element.
Whitespace == {" ", "\t", "\n"}

\* pieces a draft is made of: a paragraph, a line break, a level-2 heading on
\* its own line, the same with a tab after the marker, a level-3 heading, a
\* level-2 heading with no line break before it, and a bare marker
Segments ==
    { <<"Intro">>,
      <<"\n">>,
      <<"\n", "#", "#", " ", "Title">>,
      <<"\n", "#", "#", "\t", "Title">>,
      <<"\n", "#", "#", "#", " ", "Sub">>,
      <<"#", "#", " ", "Title">>,
      <<"\n", "#", "#">> }

RECURSIVE DraftsUpTo(_)
\* the draft argument: up to n segments one after the other
DraftsUpTo(n) ==
    IF n = 0 THEN {<<>>}
    ELSE LET shorter == DraftsUpTo(n - 1)
         IN  shorter \cup {d \o g : d \in shorter, g \in Segments}

Drafts == DraftsUpTo(MaxSegments)

\* the images argument: absent, or a list of k distinct paths
ImagePaths(k) == [i \in 1..k |-> "images/img-" \o ToString(i) \o ".png"]

ImageLists ==
    {[defined |-> FALSE, list |-> <<>>]}
    \cup {[defined |-> TRUE, list |-> ImagePaths(k)] : k \in 0..MaxImages}

Formats == {UNDEF, "linkedin"}

\* values a rejected upstream call may carry
ErrorObj(msg) == [kind |-> "Error", message |-> msg]

Thrown ==
    { ErrorObj("503 unavailable"),          \* an Error with a message
      ErrorObj(""),                         \* an Error with an empty message
      [kind |-> "string", message |-> UNDEF, text |-> "quota exceeded"],
      [kind |-> "undefined"] }              \* a rejection without a reason

NoThrow == [kind |-> "none"]

\* results of client.interactions.get
Outputs ==
    { <<>>,
      << [text |-> "notes"], [text |-> "report B"] >>,
      << [text |-> UNDEF] >> }              \* a last output without text

GetResults ==
    {[status |-> "completed", outputs |-> o, error |-> UNDEF] : o \in Outputs}
    \cup {[status |-> "failed", outputs |-> <<>>, error |-> e] : e \in {UNDEF, "agent error"}}
    \cup {[status |-> "in_progress", outputs |-> <<>>, error |-> UNDEF]}

\* outcomes of mkdirSync / writeFileSync on the disk
IoOutcomes == {"ok", "mkdir_fails", "write_fails"}

-----------------------------------------------------------------------------
(* JavaScript helpers *)

\* truthiness of a string-or-undefined value: if (x) ...
Truthy(x) == x # UNDEF /\ x # ""

\* String(e) of a thrown value that is not an Error
StringOf(e) == IF e.kind = "string" THEN e.text ELSE "undefined"

\* JSON.stringify of an object: properties whose value is undefined are left out
JSONstringify(obj) ==
    [k \in {k \in DOMAIN obj : obj[k] # UNDEF} |-> obj[k]]

TextContent(obj) == JSONstringify(obj)

\* Map.prototype.set
MapSet(m, k, v) == [x \in DOMAIN m \cup {k} |-> IF x = k THEN v ELSE m[x]]

EmptyMap == [x \in {} |-> UNDEF]

Append2(s, a, b) == Append(Append(s, a), b)

Range(s) == {s[i] : i \in DOMAIN s}

-----------------------------------------------------------------------------
(* performDeepResearch *)

maxPolls == MaxPolls

\* catch (error) { job.status = "failed"; job.error = ...; throw error }
CatchBlock(job, e) ==
    [job EXCEPT !.status = "failed",
                !.error = IF e.kind = "Error" THEN e.message ELSE StringOf(e)]

\* a second brief and a second set of article constraints
Brief2 == [Brief EXCEPT !.topic = "Solid-state batteries", !.geographic_focus = UNDEF]

ArticleSpecs2 ==
    [ArticleSpecs EXCEPT !.format = "linkedin", !.word_count = "800",
                         !.audience = "executives"]

\* complete specs: every brief with every set of article constraints
QuerySpecs ==
    {[defined |-> TRUE, research_brief |-> b, article_specs |-> a]
       : b \in {Brief, Brief2}, a \in {ArticleSpecs, ArticleSpecs2}}

\* the query built from spec.research_brief; evaluating it throws a TypeError
\* when spec or spec.research_brief is undefined
QueryThrows(spec) == ~spec.defined \/ ~spec.research_brief.defined

RECURSIVE Bulleted(_)
\* list.forEach(x => query += `- ${x}\n`)
Bulleted(list) ==
    IF list = <<>> THEN "" ELSE "- " \o Head(list) \o "\n" \o Bulleted(Tail(list))

RECURSIVE Numbered(_, _)
\* list.forEach((x, i) => query += `${i + 1}. ${x}\n`), from index i
Numbered(list, i) ==
    IF list = <<>> THEN ""
    ELSE ToString(i + 1) \o ". " \o Head(list) \o "\n" \o Numbered(Tail(list), i + 1)

\* if (list && list.length > 0) { query += header; items; query += "\n" }
Section(header, list, items) ==
    IF Len(list) > 0 THEN header \o "\n" \o items \o "\n" ELSE ""

\* a query that also tells the researcher the format of the article
BuildQueryForFormat(spec) ==
    "Research Brief: " \o spec.research_brief.topic \o "\n\n"
    \o "Format: " \o spec.article_specs.format

BuildQuery(spec) ==
    LET brief == spec.research_brief
    IN  "Research Brief: " \o brief.topic \o "\n\n"
        \o Section("Core Investigation:", brief.core_questions,
                   Numbered(brief.core_questions, 0))
        \o Section("Required Perspectives:", brief.perspectives,
                   Bulleted(brief.perspectives))
        \o Section("Key Dimensions to Explore:", brief.dimensions,
                   Numbered(brief.dimensions, 0))
        \o Section("Evidence Priorities:", brief.evidence_types,
                   Bulleted(brief.evidence_types))
        \o Section("Critical Contexts:", brief.contexts, Bulleted(brief.contexts))
        \o Section("Adjacent Topics for Complete Picture:", brief.related_topics,
                   Bulleted(brief.related_topics))
        \o Section("Key Controversies and Debates:", brief.controversies,
                   Bulleted(brief.controversies))
        \o Section("Timeframe Analysis:", brief.timeframes, Bulleted(brief.timeframes))
        \o (IF Truthy(brief.geographic_focus)
              THEN "Geographic Focus: " \o brief.geographic_focus \o "\n\n" ELSE "")
        \o "Please provide comprehensive research covering all dimensions with specific examples, data, and contrasting viewpoints."

TypeErrorOfSpec == ErrorObj("Cannot read properties of undefined")

\* report = outputs.length > 0 ? outputs[outputs.length - 1].text : ""
ReportOf(result) ==
    IF Len(result.outputs) > 0 THEN result.outputs[Len(result.outputs)].text ELSE ""

\* the promise of performDeepResearch has settled: its locals are gone; `report`
\* and `cause` record what the call computed and why it ended
Settled(pc, e, report, why) ==
    [pc |-> pc, pollCount |-> 0, thrown |-> e, report |-> report, cause |-> why]

\* a reaction that puts the job back to running (as a retry would)
CatchReactionRequeues(job, e) == [job EXCEPT !.status = "running"]

\* performDeepResearch(spec, job).catch((error) => { job.status = "failed";
\* job.error = error.message })   -- reading .message of undefined throws inside
\* the reaction after the status was assigned
CatchReaction(job, e) ==
    IF e.kind = "undefined"
      THEN [job EXCEPT !.status = "failed"]
      ELSE [job EXCEPT !.status = "failed", !.error = e.message]

\* the reaction throws itself when the rejection carries undefined: the promise
\* returned by .catch is then rejected and nothing handles it
ReactionThrows(e) == e.kind = "undefined"

\* a catch block that marks every job of the store failed, not only its own
ThrowsFailsAll(j, job, pre, e, why) ==
    /\ jobs' = [k \in DOMAIN jobs |->
                  IF k = j THEN CatchReaction(CatchBlock(job, e), e)
                           ELSE [jobs[k] EXCEPT !.status = "failed", !.error = e.message]]
    /\ task' = [task EXCEPT ![j] = Settled("handled", NoThrow, UNDEF, why)]
    /\ writeLog' = [writeLog EXCEPT ![j] = Append2(@ \o pre, "failed", "failed")]
    /\ unhandled' = (unhandled \/ ReactionThrows(e))

\* The task of job j, resumed after an await, throws `e` inside the try block
\* with the job record being `job` and `pre` the statuses assigned in this
\* stretch before the throw.  The catch block runs, the promise is rejected and
\* its .catch reaction runs in the same drain of the promise-job queue, before
\* any other request is handled.
Throws(j, job, pre, e, why) ==
    /\ jobs' = [jobs EXCEPT ![j] = CatchReaction(CatchBlock(job, e), e)]
    /\ task' = [task EXCEPT ![j] = Settled("handled", NoThrow, UNDEF, why)]
    /\ writeLog' = [writeLog EXCEPT ![j] = Append2(@ \o pre, "failed", "failed")]
    /\ unhandled' = (unhandled \/ ReactionThrows(e))

\* client.interactions.create resolves: the polling loop is entered
CreateResolves(j) ==
    /\ j \in DOMAIN task /\ task[j].pc = "create"
    /\ LET job == [jobs[j] EXCEPT !.interactionId = "interaction"]
       IN  IF 0 < maxPolls
             THEN /\ jobs' = [jobs EXCEPT ![j] = job]
                  /\ task' = [task EXCEPT ![j].pc = "sleep"]
                  /\ UNCHANGED <<writeLog, unhandled>>
             ELSE Throws(j, job, <<>>, ErrorObj("Research timed out"), "timeout")
    /\ UNCHANGED <<files, issued, last, polled, fanout, batch>>

\* client.interactions.create rejects with e
CreateRejects(j, e) ==
    /\ j \in DOMAIN task /\ task[j].pc = "create"
    /\ Throws(j, jobs[j], <<>>, e, "upstream_rejected")
    /\ UNCHANGED <<files, issued, last, polled, fanout, batch>>

\* the poll timer fires and the poll is not counted
TimerFiresUncounted(j) ==
    /\ j \in DOMAIN task /\ task[j].pc = "sleep"
    /\ task' = [task EXCEPT ![j].pc = "get"]
    /\ issued' = issued \cup {[api |-> "interactions.get", job |-> j, query |-> UNDEF]}
    /\ UNCHANGED <<jobs, files, last, polled, writeLog, unhandled, fanout, batch>>

\* the poll timer fires: pollCount++, client.interactions.get is called
TimerFires(j) ==
    /\ j \in DOMAIN task /\ task[j].pc = "sleep"
    /\ task' = [task EXCEPT ![j].pc = "get", ![j].pollCount = @ + 1]
    /\ issued' = issued \cup {[api |-> "interactions.get", job |-> j, query |-> UNDEF]}
    /\ UNCHANGED <<jobs, files, last, polled, writeLog, unhandled, fanout, batch>>

\* client.interactions.get rejects with e
GetRejects(j, e) ==
    /\ j \in DOMAIN task /\ task[j].pc = "get"
    /\ Throws(j, jobs[j], <<>>, e, "upstream_rejected")
    /\ UNCHANGED <<files, issued, last, polled, fanout, batch>>

\* the job is marked complete although mkdirSync / writeFileSync threw
CompletedToDiskIgnoringIo(j, result, io) ==
    LET report == ReportOf(result)
        path   == jobs[j].outputPath
    IN  /\ files' = IF io = "ok" /\ report # UNDEF THEN MapSet(files, path, report) ELSE files
        /\ jobs' = [jobs EXCEPT ![j].result = UNDEF, ![j].status = "complete"]
        /\ task' = [task EXCEPT ![j] =
              Settled("fulfilled", NoThrow, report, IF io = "ok" THEN "none" ELSE "io")]
        /\ writeLog' = [writeLog EXCEPT ![j] = Append(@, "complete")]
        /\ UNCHANGED unhandled

\* result.status === "completed", the job has an outputPath
CompletedToDisk(j, result, io) ==
    LET report == ReportOf(result)
        path   == jobs[j].outputPath
    IN  IF io = "mkdir_fails"
          THEN /\ Throws(j, jobs[j], <<>>, ErrorObj("EACCES: permission denied"), "io")
               /\ UNCHANGED files
        ELSE IF report = UNDEF
          \* writeFileSync(path, undefined) throws ERR_INVALID_ARG_TYPE
          THEN /\ Throws(j, jobs[j], <<>>,
                         ErrorObj("The data argument must be of type string"), "internal")
               /\ UNCHANGED files
        ELSE IF io = "write_fails"
          THEN /\ Throws(j, jobs[j], <<>>, ErrorObj("EACCES: permission denied"), "io")
               /\ UNCHANGED files
          ELSE /\ files' = MapSet(files, path, report)
               /\ jobs' = [jobs EXCEPT ![j].result = UNDEF, ![j].status = "complete"]
               /\ task' = [task EXCEPT ![j] = Settled("fulfilled", NoThrow, report, "none")]
               /\ writeLog' = [writeLog EXCEPT ![j] = Append(@, "complete")]
               /\ UNCHANGED unhandled

\* the completed branch without its `return`: the loop goes on polling
CompletedInlineKeepsPolling(j, result) ==
    LET job == [jobs[j] EXCEPT !.result = ReportOf(result), !.status = "complete"]
    IN  /\ UNCHANGED files
        /\ IF task[j].pollCount < maxPolls
             THEN /\ jobs' = [jobs EXCEPT ![j] = job]
                  /\ task' = [task EXCEPT ![j].pc = "sleep"]
                  /\ writeLog' = [writeLog EXCEPT ![j] = Append(@, "complete")]
                  /\ UNCHANGED unhandled
             ELSE Throws(j, job, <<"complete">>, ErrorObj("Research timed out"), "timeout")

\* result.status === "completed", no outputPath: the report is kept in the job
CompletedInline(j, result) ==
    LET report == ReportOf(result)
    IN  /\ UNCHANGED files
        /\ IF report = UNDEF
             \* job.result = report; job.status = "complete"; then report.length
             \* throws a TypeError and the catch block runs
             THEN Throws(j, [jobs[j] EXCEPT !.result = report, !.status = "complete"],
                         <<"complete">>,
                         ErrorObj("Cannot read properties of undefined (reading 'length')"),
                         "internal")
             ELSE /\ jobs' = [jobs EXCEPT ![j].result = report, ![j].status = "complete"]
                  /\ task' = [task EXCEPT ![j] = Settled("fulfilled", NoThrow, report, "none")]
                  /\ writeLog' = [writeLog EXCEPT ![j] = Append(@, "complete")]
                  /\ UNCHANGED unhandled

\* client.interactions.get resolves with `result`
GetResolves(j, result, io) ==
    /\ j \in DOMAIN task /\ task[j].pc = "get"
    /\ IF result.status = "completed"
         THEN IF Truthy(jobs[j].outputPath)
                THEN CompletedToDisk(j, result, io)
                ELSE CompletedInline(j, result)
       ELSE IF result.status = "failed"
         THEN /\ Throws(j, jobs[j], <<>>,
                        ErrorObj("Research failed: " \o
                           (IF Truthy(result.error) THEN result.error ELSE "Unknown error")),
                        "upstream_failed")
              /\ UNCHANGED files
       ELSE IF task[j].pollCount < maxPolls
         THEN /\ task' = [task EXCEPT ![j].pc = "sleep"]
              /\ UNCHANGED <<jobs, files, writeLog, unhandled>>
         ELSE /\ Throws(j, jobs[j], <<>>, ErrorObj("Research timed out"), "timeout")
              /\ UNCHANGED files
    /\ UNCHANGED <<issued, last, polled, fanout, batch>>

\* The reaction of a promise that was already rejected when .catch was attached
\* (performDeepResearch threw before its first await, inside the handler of
\* start_deep_research): it runs after the handler has returned, as a promise
\* job of its own, behind the promise jobs queued before it.
RejectionHandled(j) ==
    /\ j \in DOMAIN task /\ task[j].pc = "rejected"
    /\ jobs' = [jobs EXCEPT ![j] = CatchReaction(@, task[j].thrown)]
    /\ task' = [task EXCEPT ![j].pc = "handled", ![j].thrown = NoThrow]
    /\ writeLog' = [writeLog EXCEPT ![j] = Append(@, "failed")]
    /\ unhandled' = (unhandled \/ ReactionThrows(task[j].thrown))
    /\ UNCHANGED <<files, issued, last, polled, fanout, batch>>

-----------------------------------------------------------------------------
(* Tool handlers *)

\* generateId: `job_<ms>_<random>`, a token no stored job carries
generateId == {"job_" \o ToString(Cardinality(DOMAIN jobs) + 1)} \cap JobIds

\* generateId without the assumption that the token is new
generateIdAny == JobIds

\* a job that is stored as pending and left for the task to set running
NewJobPending(id, outputPath) ==
    [id |-> id, status |-> "pending", result |-> UNDEF, error |-> UNDEF,
     interactionId |-> UNDEF, outputPath |-> outputPath]

NewJob(id, outputPath) ==
    [id |-> id, status |-> "running", result |-> UNDEF, error |-> UNDEF,
     interactionId |-> UNDEF, outputPath |-> outputPath]

NewTask == [pc |-> "create", pollCount |-> 0, thrown |-> NoThrow,
            report |-> UNDEF, cause |-> "none"]

Call(name, obj) == [name |-> name, response |-> TextContent(obj)]

\* case "start_deep_research", generateId having returned jobId
StartJob(jobId, spec, outputPath) ==
       LET job == NewJob(jobId, outputPath)
       IN  /\ IF QueryThrows(spec)
                THEN /\ jobs' = MapSet(jobs, jobId, CatchBlock(job, TypeErrorOfSpec))
                     /\ task' = MapSet(task, jobId,
                           Settled("rejected", TypeErrorOfSpec, UNDEF, "internal"))
                     /\ writeLog' = MapSet(writeLog, jobId, <<"failed">>)
                     /\ UNCHANGED issued
                ELSE /\ jobs' = MapSet(jobs, jobId, job)
                     /\ task' = MapSet(task, jobId, NewTask)
                     /\ writeLog' = MapSet(writeLog, jobId, <<>>)
                     /\ issued' = issued \cup
                           {[api |-> "interactions.create", job |-> jobId,
                             query |-> BuildQuery(spec), spec |-> spec]}
           /\ polled' = MapSet(polled, jobId, "never")
           /\ last' = Call("start_deep_research", [job_id |-> jobId, status |-> "running"])
           /\ UNCHANGED <<files, unhandled, fanout, batch>>

\* case "start_deep_research", the token being one no stored job carries
StartDeepResearch(spec, outputPath) ==
    \E jobId \in generateId : StartJob(jobId, spec, outputPath)

\* case "start_deep_research", the token being any that Date.now() and
\* Math.random() can yield: nothing compares it with the ids in the store.  The
\* task of a job that is overwritten goes on with a record the store no longer
\* holds and is dropped from `task`.
StartDeepResearchAnyId(spec, outputPath) ==
    \E jobId \in generateIdAny : StartJob(jobId, spec, outputPath)

\* the tokens of a store that holds one job more than JobIds
PairIds == {"job_" \o ToString(i) : i \in 1..(MaxJobs + 1)}

\* generateId among PairIds, a token no stored job carries
generateIdPair == {"job_" \o ToString(Cardinality(DOMAIN jobs) + 1)} \cap PairIds

\* case "start_deep_research" while other jobs are in flight
StartDeepResearchPair(spec, outputPath) ==
    \E jobId \in generateIdPair : StartJob(jobId, spec, outputPath)

\* the response of check_research_status
StatusResponse(jobId) ==
    IF jobId \notin DOMAIN jobs
      THEN [error |-> "Job not found"]
      ELSE [job_id |-> jobId, status |-> jobs[jobId].status,
            error |-> IF Truthy(jobs[jobId].error) THEN jobs[jobId].error ELSE UNDEF]

\* what the caller has seen of a job through check_research_status
Observe(before, status) ==
    IF status \in {"complete", "failed"}
      THEN IF before = "never" THEN "terminal" ELSE "terminal_again"
      ELSE before

\* a status handler that waits behind the generation calls in flight
CheckResearchStatusQueued(jobId) ==
    /\ fanout.state # "running" /\ batch.state # "running"
    /\ last' = Call("check_research_status", StatusResponse(jobId))
    /\ polled' = IF jobId \in DOMAIN jobs
                   THEN [polled EXCEPT ![jobId] = Observe(@, jobs[jobId].status)]
                   ELSE polled
    /\ UNCHANGED <<jobs, task, files, issued, writeLog, unhandled, fanout, batch>>

\* case "check_research_status"
CheckResearchStatus(jobId) ==
    /\ last' = Call("check_research_status", StatusResponse(jobId))
    /\ polled' = IF jobId \in DOMAIN jobs
                   THEN [polled EXCEPT ![jobId] = Observe(@, jobs[jobId].status)]
                   ELSE polled
    /\ UNCHANGED <<jobs, task, files, issued, writeLog, unhandled, fanout, batch>>

\* a result handler that only refuses failed jobs
ResultResponseUnlessFailed(jobId) ==
    IF jobId \notin DOMAIN jobs
      THEN [error |-> "Job not found"]
    ELSE IF jobs[jobId].status = "failed"
      THEN [error |-> "Job not complete", status |-> jobs[jobId].status]
    ELSE IF Truthy(jobs[jobId].outputPath)
      THEN [saved_to |-> jobs[jobId].outputPath]
      ELSE [result |-> jobs[jobId].result]

\* a result handler that reports an unknown job as not complete
ResultResponseNoLookup(jobId) ==
    IF jobId \notin DOMAIN jobs \/ jobs[jobId].status # "complete"
      THEN [error |-> "Job not complete",
            status |-> IF jobId \in DOMAIN jobs THEN jobs[jobId].status ELSE UNDEF]
    ELSE IF Truthy(jobs[jobId].outputPath)
      THEN [saved_to |-> jobs[jobId].outputPath]
      ELSE [result |-> jobs[jobId].result]

\* a result handler that always answers from job.result, also for jobs on disk
ResultResponseInlineOnly(jobId) ==
    IF jobId \notin DOMAIN jobs
      THEN [error |-> "Job not found"]
    ELSE IF jobs[jobId].status # "complete"
      THEN [error |-> "Job not complete", status |-> jobs[jobId].status]
      ELSE [result |-> jobs[jobId].result]

\* a result handler that tells why a failed job failed
ResultResponseWithCause(jobId) ==
    IF jobId \notin DOMAIN jobs
      THEN [error |-> "Job not found"]
    ELSE IF jobs[jobId].status = "failed"
      THEN [error |-> jobs[jobId].error, status |-> jobs[jobId].status]
    ELSE IF jobs[jobId].status # "complete"
      THEN [error |-> "Job not complete", status |-> jobs[jobId].status]
    ELSE IF Truthy(jobs[jobId].outputPath)
      THEN [saved_to |-> jobs[jobId].outputPath]
      ELSE [result |-> jobs[jobId].result]

\* the response of get_research_result
ResultResponse(jobId) ==
    IF jobId \notin DOMAIN jobs
      THEN [error |-> "Job not found"]
    ELSE IF jobs[jobId].status # "complete"
      THEN [error |-> "Job not complete", status |-> jobs[jobId].status]
    ELSE IF Truthy(jobs[jobId].outputPath)
      THEN [saved_to |-> jobs[jobId].outputPath]
      ELSE [result |-> jobs[jobId].result]

\* a result handler that hands a report out once and then forgets the job
GetResearchResultConsumes(jobId) ==
    /\ last' = Call("get_research_result", ResultResponse(jobId))
    /\ jobs' = [j \in DOMAIN jobs \ {jobId} |-> jobs[j]]
    /\ UNCHANGED <<task, files, issued, polled, writeLog, unhandled, fanout, batch>>

\* case "get_research_result"
GetResearchResult(jobId) ==
    /\ last' = Call("get_research_result", ResultResponse(jobId))
    /\ UNCHANGED <<jobs, task, files, issued, polled, writeLog, unhandled, fanout, batch>>

-----------------------------------------------------------------------------
(* generate_articles *)

\* const message = error instanceof Error ? error.message : "Unknown error"
OuterCatch(e) == [error |-> IF e.kind = "Error" THEN e.message ELSE "Unknown error"]

\* spec.article_specs / articleSpecs.word_count read from undefined
ArticleThrows(spec) == ~spec.defined \/ ~spec.article_specs.defined

\* return result.text || ""
ArticleOf(text) == IF Truthy(text) THEN text ELSE ""

\* one generateArticle call
NewCall(model, status) ==
    [model |-> model, status |-> status, text |-> UNDEF, thrown |-> NoThrow]

\* the array destructured from Promise.all, named by position of the promise
ArticlesResponseByCompletion(f) ==
    [pro_article |-> ArticleOf(f.calls[f.order[1]].text),
     flash_article |-> ArticleOf(f.calls[f.order[2]].text)]

ArticlesResponse(f) ==
    [pro_article |-> ArticleOf(f.calls[Variants[1]].text),
     flash_article |-> ArticleOf(f.calls[Variants[2]].text)]

\* the await of Promise.all throws the first rejection into the outer catch
FanoutFailedPartial(f, e) ==
    [error |-> OuterCatch(e).error,
     pro_article |-> IF f.calls["pro"].status = "resolved"
                       THEN ArticleOf(f.calls["pro"].text) ELSE UNDEF,
     flash_article |-> IF f.calls["flash"].status = "resolved"
                         THEN ArticleOf(f.calls["flash"].text) ELSE UNDEF]

FanoutFailed(f, e) == OuterCatch(e)

\* case "generate_articles", up to the await
GenerateArticles(research, spec) ==
    /\ fanout.state # "running"
    /\ IF ArticleThrows(spec)
         THEN \* both generateArticle promises reject before any upstream call
              LET f == [state |-> "responded",
                        calls |-> [v \in Range(Variants) |-> NewCall(Models[v], "not_issued")],
                        order |-> <<>>]
              IN  /\ fanout' = f
                  /\ last' = Call("generate_articles", FanoutFailed(f, TypeErrorOfSpec))
                  /\ UNCHANGED issued
         ELSE /\ fanout' = [state |-> "running",
                            calls |-> [v \in Range(Variants) |-> NewCall(Models[v], "pending")],
                            order |-> <<>>]
              /\ issued' = issued \cup
                    {[api |-> "models.generateContent", job |-> UNDEF, query |-> Models[v]]
                       : v \in Range(Variants)}
              /\ UNCHANGED last
    /\ UNCHANGED <<jobs, task, files, polled, writeLog, unhandled, batch>>

\* the generateContent call of variant v resolves
VariantResolves(v, text) ==
    /\ fanout.state \in {"running", "responded"}
    /\ fanout.calls[v].status = "pending"
    /\ LET f == [fanout EXCEPT !.calls[v].status = "resolved", !.calls[v].text = text,
                               !.order = Append(@, v)]
       IN  IF fanout.state = "running" /\ \A w \in Range(Variants) : f.calls[w].status = "resolved"
             THEN /\ fanout' = [f EXCEPT !.state = "responded"]
                  /\ last' = Call("generate_articles", ArticlesResponse(f))
             ELSE /\ fanout' = f
                  /\ UNCHANGED last
    /\ UNCHANGED <<jobs, task, files, issued, polled, writeLog, unhandled, batch>>

\* the generateContent call of variant v rejects
VariantRejects(v, e) ==
    /\ fanout.state \in {"running", "responded"}
    /\ fanout.calls[v].status = "pending"
    /\ LET f == [fanout EXCEPT !.calls[v].status = "rejected", !.calls[v].thrown = e,
                               !.order = Append(@, v)]
       IN  IF fanout.state = "running"
             THEN /\ fanout' = [f EXCEPT !.state = "responded"]
                  /\ last' = Call("generate_articles", FanoutFailed(f, e))
             ELSE /\ fanout' = f
                  /\ UNCHANGED last
    /\ UNCHANGED <<jobs, task, files, issued, polled, writeLog, unhandled, batch>>

-----------------------------------------------------------------------------
(* generate_images *)

\* a response all of whose properties are defined
CallDefined(name, obj) == [name |-> name, response |-> obj]

\* const errorMsg = error?.message || String(error)
ItemErrorMsg(e) ==
    IF e.kind = "Error"
      THEN (IF Truthy(e.message) THEN e.message ELSE "Error")
      ELSE StringOf(e)

\* `${outputDir}/${imagePrompt.filename}`
FilepathBare(outputDir, filename) == filename

Filepath(outputDir, filename) == outputDir \o "/" \o filename

\* the JSON report returned after the loop
ImagesReport(b) ==
    [status |-> "images_generated",
     images |-> b.images,
     total |-> Len(b.prompts),
     successful |-> Len(b.images),
     failed |-> Len(b.errors),
     errors |-> b.errors]

\* the catch of one item: errors.push({filename, error: errorMsg})
CatchItemAborts(b, e, how) ==
    [b EXCEPT !.errors = Append(@, [filename |-> b.prompts[b.idx].filename,
                                    error |-> ItemErrorMsg(e)]),
              !.outcomes = Append(@, how),
              !.idx = Len(b.prompts)]

CatchItem(b, e, how) ==
    [b EXCEPT !.errors = Append(@, [filename |-> b.prompts[b.idx].filename,
                                    error |-> ItemErrorMsg(e)]),
              !.outcomes = Append(@, how)]

\* a response that holds no image: the item is left out of both lists
SkipItem(b, how) == [b EXCEPT !.outcomes = Append(@, how)]

\* the saved path is put in front of the list (generatedImages.unshift)
SaveImageFirst(b) ==
    LET filepath == Filepath(b.outputDir, b.prompts[b.idx].filename)
    IN  [b EXCEPT !.images = <<filepath>> \o @,
                  !.writes = Append(@, filepath),
                  !.outcomes = Append(@, "saved")]

\* writeFileSync(filepath, buffer); generatedImages.push(filepath)
SaveImage(b) ==
    LET filepath == Filepath(b.outputDir, b.prompts[b.idx].filename)
    IN  [b EXCEPT !.images = Append(@, filepath),
                  !.writes = Append(@, filepath),
                  !.outcomes = Append(@, "saved")]

\* the loop moves to the next prompt, or the handler returns the report
Advance(b) ==
    IF b.idx < Len(b.prompts)
      THEN /\ batch' = [b EXCEPT !.idx = @ + 1, !.called = @ + 1]
           /\ issued' = issued \cup
                 {[api |-> "models.generateContent", job |-> UNDEF, query |-> Models.image]}
           /\ UNCHANGED last
      ELSE /\ batch' = [b EXCEPT !.state = "done"]
           /\ last' = CallDefined("generate_images", ImagesReport(b))
           /\ UNCHANGED issued

NewBatch(prompts, outputDir) ==
    [state |-> "running", prompts |-> prompts.list, outputDir |-> outputDir,
     idx |-> 0, called |-> 0, images |-> <<>>, errors |-> <<>>, writes |-> <<>>,
     outcomes |-> <<>>]

\* case "generate_images", up to the first await.  A failing mkdirSync is
\* caught and logged, and changes nothing.
GenerateImages(prompts, outputDir) ==
    /\ batch.state = "idle"
    /\ IF ~prompts.defined
         THEN \* for (... of undefined) throws into the outer catch
              /\ batch' = [NewBatch(prompts, outputDir) EXCEPT !.state = "threw"]
              /\ last' = Call("generate_images", OuterCatch(ErrorObj("prompts is not iterable")))
              /\ UNCHANGED issued
         ELSE Advance(NewBatch(prompts, outputDir))
    /\ UNCHANGED <<jobs, task, files, polled, writeLog, unhandled, fanout>>

\* the generateContent call of the current prompt resolves
ItemResolves(response, io) ==
    /\ batch.state = "running"
    /\ CASE response = "image" /\ io = "ok" ->
              /\ Advance(SaveImage(batch))
              /\ files' = MapSet(files, Filepath(batch.outputDir, batch.prompts[batch.idx].filename), "png")
         [] response = "image" /\ io = "write_fails" ->
              /\ Advance(CatchItem(batch, ErrorObj("ENOSPC: no space left on device"), "write_failed"))
              /\ UNCHANGED files
         [] response = "no_content" ->
              /\ Advance(CatchItem(batch, TypeErrorOfSpec, "no_content"))
              /\ UNCHANGED files
         [] OTHER ->
              /\ Advance(SkipItem(batch, response))
              /\ UNCHANGED files
    /\ UNCHANGED <<jobs, task, polled, writeLog, unhandled, fanout>>

\* the generateContent call of the current prompt rejects
ItemRejects(e) ==
    /\ batch.state = "running"
    /\ Advance(CatchItem(batch, e, "threw"))
    /\ UNCHANGED <<jobs, task, files, polled, writeLog, unhandled, fanout>>

-----------------------------------------------------------------------------
(* assemble_markdown *)

\* `![Hero Image](${images[0]})`
HeroLink(path) == "![Hero Image](" \o path \o ")"

\* `![Section ${i}](${images[i]})`
SectionLink(i, path) == "![Section " \o ToString(i) \o "](" \o path \o ")"

\* the regular expression /\n##\s/ matches at position p of doc
MatchAt(doc, p) ==
    /\ p + 3 <= Len(doc)
    /\ doc[p] = "\n" /\ doc[p + 1] = "#" /\ doc[p + 2] = "#"
    /\ doc[p + 3] \in Whitespace

\* position of the leftmost match at or after `from`, 0 when there is none
FirstMatch(doc, from) ==
    LET ps == {p \in from..Len(doc) : MatchAt(doc, p)}
    IN  IF ps = {} THEN 0 ELSE CHOOSE p \in ps : \A q \in ps : p <= q

RECURSIVE Split(_)
\* doc.split(/\n##\s/)
Split(doc) ==
    LET p == FirstMatch(doc, 1)
    IN  IF p = 0 THEN <<doc>>
        ELSE <<SubSeq(doc, 1, p - 1)>> \o Split(SubSeq(doc, p + 4, Len(doc)))

RECURSIVE Join(_, _)
\* sections.join(sep)
Join(sections, sep) ==
    IF Len(sections) = 1 THEN sections[1]
    ELSE sections[1] \o sep \o Join(Tail(sections), sep)

Min(a, b) == IF a <= b THEN a ELSE b

\* images[i] of the loop, i counted from 0 as in the code
SectionImagePrevious(images, i) == images[i]

SectionImage(images, i) == images[i + 1]

\* the handler's computation of `assembled`, were the split and the join done
\* whether or not there is an image
AssembleRejoined(draft, images) ==
    IF Len(images) > 0
      THEN <<HeroLink(images[1]), "\n", "\n">> \o draft
      ELSE Join(Split(draft), <<"\n">>)

\* the handler's computation of `assembled`
Assemble(draft, images) ==
    IF Len(images) > 0
      THEN LET hero == <<HeroLink(images[1]), "\n", "\n">> \o draft
               sections == Split(hero)
               withImages ==
                  [t \in DOMAIN sections |->
                     IF t - 1 >= 1 /\ t - 1 < Min(Len(sections), Len(images))
                       THEN <<SectionLink(t - 1, SectionImage(images, t - 1)),
                              "\n", "\n", "#", "#", " ">> \o sections[t]
                       ELSE sections[t]]
           IN  IF Len(sections) > 1 /\ Len(images) > 1
                 THEN Join(withImages, <<"\n">>)
                 ELSE hero
      ELSE draft

\* an assembler that also writes the assembled article to disk
AssembleMarkdownSaves(draft, images, format) ==
    /\ last' =
          [args |-> [draft |-> draft, images |-> images, format |-> format]] @@
          CallDefined("assemble_markdown",
             [assembled_markdown |-> Assemble(draft, images.list),
              format |-> IF Truthy(format) THEN format ELSE "blog"])
    /\ files' = MapSet(files, "out/article.md", "assembled")
    /\ UNCHANGED <<jobs, task, issued, polled, writeLog, unhandled, fanout, batch>>

\* case "assemble_markdown"
AssembleMarkdown(draft, images, format) ==
    /\ last' =
          [args |-> [draft |-> draft, images |-> images, format |-> format]] @@
          (IF ~images.defined
             THEN Call("assemble_markdown", OuterCatch(TypeErrorOfSpec))
             ELSE CallDefined("assemble_markdown",
                    [assembled_markdown |-> Assemble(draft, images.list),
                     format |-> IF Truthy(format) THEN format ELSE "blog"]))
    /\ UNCHANGED <<jobs, task, files, issued, polled, writeLog, unhandled, fanout, batch>>

\* default: of the switch over the tool name
UnknownToolResponseAnonymous(name) == [error |-> "Unknown tool"]

UnknownToolResponse(name) == [error |-> "Unknown tool: " \o name]

\* a tool name that is none of the six registered ones
UnknownTool(name) ==
    /\ last' = Call(name, UnknownToolResponse(name))
    /\ UNCHANGED <<jobs, task, files, issued, polled, writeLog, unhandled, fanout, batch>>

-----------------------------------------------------------------------------
(* Specification *)

\* no generate_articles / generate_images call is in flight
NoFanout == [state |-> "idle"]

NoBatch == [state |-> "idle"]

NoCall == [name |-> "none", response |-> EmptyMap]

Init ==
    /\ jobs = EmptyMap
    /\ task = EmptyMap
    /\ files = EmptyMap
    /\ issued = {}
    /\ last = NoCall
    /\ polled = EmptyMap
    /\ writeLog = EmptyMap
    /\ unhandled = FALSE
    /\ fanout = NoFanout
    /\ batch = NoBatch

Next ==
    \/ \E spec \in Specs, outputPath \in OutputPaths : StartDeepResearch(spec, outputPath)
    \/ \E j \in JobIds : CreateResolves(j)
    \/ \E j \in JobIds, e \in Thrown : CreateRejects(j, e)
    \/ \E j \in JobIds : TimerFires(j)
    \/ \E j \in JobIds, r \in GetResults, io \in IoOutcomes : GetResolves(j, r, io)
    \/ \E j \in JobIds, e \in Thrown : GetRejects(j, e)
    \/ \E j \in JobIds : RejectionHandled(j)
    \/ \E jobId \in JobIdArgs : CheckResearchStatus(jobId)
    \/ \E jobId \in JobIdArgs : GetResearchResult(jobId)
    \/ \E name \in UnknownNames : UnknownTool(name)

Spec == Init /\ [][Next]_vars

\* the upstream call or the timer that the task of job j waits for returns
UpstreamReturns(j) ==
    \/ CreateResolves(j)
    \/ \E e \in Thrown : CreateRejects(j, e)
    \/ TimerFires(j)
    \/ \E r \in GetResults, io \in IoOutcomes : GetResolves(j, r, io)
    \/ \E e \in Thrown : GetRejects(j, e)

\* the server when every upstream call and every timer returns
SpecFair == Spec /\ \A j \in JobIds : WF_vars(UpstreamReturns(j))

\* the complete spec of Specs
FullSpec == [defined |-> TRUE, research_brief |-> Brief, article_specs |-> ArticleSpecs]

\* a prompts list of one item
OnePrompt ==
    [defined |-> TRUE, list |-> <<[filename |-> "hero.png", prompt |-> "a diagram"]>>]

\* a draft with one section, and the image lists given with it
ServerDrafts == {<<"Intro", "\n", "#", "#", " ", "Title">>}

ServerImages == {[defined |-> TRUE, list |-> ImagePaths(k)] : k \in {0, 2}}

\* research jobs, their queries, the two generators and the assembler side by
\* side
NextServer ==
    \/ StartDeepResearch(FullSpec, UNDEF)
    \/ \E j \in JobIds : CreateResolves(j)
    \/ \E j \in JobIds : TimerFires(j)
    \/ \E j \in JobIds, r \in GetResults :
          r.error = UNDEF /\ Len(r.outputs) # 1 /\ GetResolves(j, r, "ok")
    \/ \E jobId \in JobIds : CheckResearchStatus(jobId)
    \/ \E jobId \in JobIds : GetResearchResult(jobId)
    \/ GenerateArticles("report B", FullSpec)
    \/ \E v \in Range(Variants) : VariantResolves(v, "article A")
    \/ \E outputDir \in OutputDirs : GenerateImages(OnePrompt, outputDir)
    \/ ItemResolves("image", "ok")
    \/ \E draft \in ServerDrafts, images \in ServerImages :
          AssembleMarkdown(draft, images, UNDEF)

SpecServer == Init /\ [][NextServer]_vars

\* submissions whose ids may repeat, each with any complete spec
NextResubmit ==
    \/ \E spec \in QuerySpecs : StartDeepResearchAnyId(spec, UNDEF)
    \/ \E j \in JobIds : CreateResolves(j)
    \/ \E j \in JobIds : TimerFires(j)
    \/ \E j \in JobIds, r \in GetResults : GetResolves(j, r, "ok")
    \/ \E jobId \in JobIds : GetResearchResult(jobId)

SpecResubmit == Init /\ [][NextResubmit]_vars

\* generate_articles calls, one at a time
NextArticles ==
    \/ \E research \in {UNDEF, "report B"}, spec \in ArticleArgs :
          GenerateArticles(research, spec)
    \/ \E v \in Range(Variants), text \in ArticleTexts : VariantResolves(v, text)
    \/ \E v \in Range(Variants), e \in Thrown : VariantRejects(v, e)

SpecArticles == Init /\ [][NextArticles]_vars

\* one generate_images call
NextImages ==
    \/ \E prompts \in PromptLists, outputDir \in OutputDirs : GenerateImages(prompts, outputDir)
    \/ \E response \in ImageResponses, io \in WriteOutcomes : ItemResolves(response, io)
    \/ \E e \in Thrown : ItemRejects(e)

SpecImages == Init /\ [][NextImages]_vars

\* one assemble_markdown call (the handler keeps no state between calls)
NextAssemble ==
    /\ last = NoCall
    /\ \E draft \in Drafts, images \in ImageLists, format \in Formats :
          AssembleMarkdown(draft, images, format)

SpecAssemble == Init /\ [][NextAssemble]_vars

\* the errors an upstream call of a job in a store of several is rejected with
PairThrown == {ErrorObj("503 Service Unavailable")}

\* several research jobs in flight at once, no status or result request
NextPair ==
    \/ \E spec \in {FullSpec, UndefObj}, outputPath \in OutputPaths :
          StartDeepResearchPair(spec, outputPath)
    \/ \E j \in PairIds : CreateResolves(j)
    \/ \E j \in PairIds, e \in PairThrown : CreateRejects(j, e)
    \/ \E j \in PairIds : TimerFires(j)
    \/ \E j \in PairIds, r \in GetResults, io \in IoOutcomes : GetResolves(j, r, io)
    \/ \E j \in PairIds, e \in PairThrown : GetRejects(j, e)
    \/ \E j \in PairIds : RejectionHandled(j)

SpecPair == Init /\ [][NextPair]_vars

-----------------------------------------------------------------------------
(* Properties *)

Terminal == {"complete", "failed"}

NotFound == [error |-> "Job not found"]

NotComplete(status) == [error |-> "Job not complete", status |-> status]

IsStatusReport(j) ==
    /\ last.name = "check_research_status"
    /\ "job_id" \in DOMAIN last.response
    /\ last.response.job_id = j

\* C1: once a check_research_status response for a job has reported complete or
\* failed, no later check_research_status response for that job reports running
\* or pending.
C1_PolledStatusMonotonic ==
    \A j \in DOMAIN jobs :
        (polled[j] # "never" /\ IsStatusReport(j)) => last.response.status \in Terminal

\* a terminal status has been observed and the job has been polled again
C1_Witness ==
    \E j \in DOMAIN jobs : polled[j] = "terminal_again" /\ IsStatusReport(j)

\* C2: a job is written to a terminal state exactly once; after the first
\* assignment of complete or failed no later step assigns the status again, and
\* a job set to complete is never afterwards set to failed.
C2_TerminalWrittenOnce ==
    \A j \in DOMAIN jobs : Len(writeLog[j]) <= 1

\* C3: get_research_result for a known job whose status is running returns the
\* error "Job not complete" with the status running, never a result or saved_to.
C3_RunningJobNotReady ==
    [][\A id \in JobIdArgs :
          (GetResearchResult(id) /\ id \in DOMAIN jobs /\ jobs[id].status = "running")
              => last'.response = NotComplete("running")]_vars

\* the result of a job was asked for while its last upstream poll was in flight
C3_Witness ==
    /\ last.name = "get_research_result"
    /\ last.response = NotComplete("running")
    /\ \E j \in DOMAIN jobs :
          jobs[j].status = "running" /\ task[j].pc = "get" /\ task[j].pollCount = maxPolls

\* C4: for a job_id no start_deep_research call has returned, check_research_status
\* and get_research_result both answer "Job not found", and a known job that is
\* not complete gets the different answer "Job not complete".
C4_UnknownJobNotFound ==
    [][\A id \in JobIdArgs :
          /\ (id \notin DOMAIN jobs /\ CheckResearchStatus(id)) => last'.response = NotFound
          /\ (id \notin DOMAIN jobs /\ GetResearchResult(id)) => last'.response = NotFound
          /\ (id \in DOMAIN jobs /\ jobs[id].status # "complete" /\ GetResearchResult(id))
                => (last'.response.error = "Job not complete" /\ last'.response # NotFound)
       ]_vars

\* an unknown job was asked for after a job had been started and had ended
C4_Witness ==
    /\ last.name = "get_research_result"
    /\ last.response = NotFound
    /\ \E j \in DOMAIN jobs : jobs[j].status \in Terminal

\* C5: whenever the upstream research call throws, rejects or reports failed, the
\* job ends in status failed, and the failure never becomes an unhandled rejection.
C5_UpstreamFailureCaught ==
    /\ \A j \in DOMAIN jobs :
          task[j].cause \in {"upstream_rejected", "upstream_failed"}
              => jobs[j].status = "failed"
    /\ ~unhandled

\* C6: every check_research_status response carries a consistent pair: running or
\* complete never with an error field, failed always with an error field.
C6_StatusErrorConsistent ==
    (last.name = "check_research_status" /\ "status" \in DOMAIN last.response) =>
        /\ last.response.status \in {"running", "complete"} => "error" \notin DOMAIN last.response
        /\ last.response.status = "failed" => "error" \in DOMAIN last.response

\* C7: get_research_result on a complete job returns {saved_to: output_path}
\* exactly when a (non-empty) output_path was given at submission, and otherwise
\* {result} holding the report the upstream produced; never neither.
C7_CompleteJobResult ==
    [][\A id \in JobIdArgs :
          (GetResearchResult(id) /\ id \in DOMAIN jobs /\ jobs[id].status = "complete")
              => IF Truthy(jobs[id].outputPath)
                   THEN last'.response = [saved_to |-> jobs[id].outputPath]
                   ELSE /\ task[id].report # UNDEF
                        /\ last'.response = [result |-> task[id].report]]_vars

\* the result of a complete job that was written to disk has been fetched
C7_Witness ==
    /\ last.name = "get_research_result"
    /\ \E j \in DOMAIN jobs :
          /\ jobs[j].status = "complete"
          /\ last.response = [saved_to |-> jobs[j].outputPath]

\* C8: a job submitted with an output_path is complete only once its report is on
\* disk at that path, and a job whose mkdir or write failed is failed.
C8_PersistedBeforeComplete ==
    \A j \in DOMAIN jobs :
        /\ (Truthy(jobs[j].outputPath) /\ jobs[j].status = "complete")
              => (jobs[j].outputPath \in DOMAIN files /\ task[j].report # UNDEF)
        /\ task[j].cause = "io" => jobs[j].status = "failed"

\* a job with an output_path is complete and its report is the file's content
C8_Witness ==
    \E j \in DOMAIN jobs :
        /\ Truthy(jobs[j].outputPath)
        /\ jobs[j].status = "complete"
        /\ jobs[j].outputPath \in DOMAIN files
        /\ files[jobs[j].outputPath] = "report B"

\* C9: start_deep_research returns {job_id, status: "running"} and, when it
\* returns, the job stored under that id has status running, for every payload.
C9_StartedJobIsRunning ==
    [][\A spec \in Specs, outputPath \in OutputPaths :
          StartDeepResearch(spec, outputPath)
              => /\ last'.response.status = "running"
                 /\ jobs'[last'.response.job_id].status = "running"]_vars

\* C10: a tool call that lacks a required argument returns a structured error and
\* invokes no component: no job is stored, no upstream call issued, no file written.
C10_MissingArgumentRejected ==
    [][/\ \A outputPath \in OutputPaths :
             StartDeepResearch(UndefObj, outputPath)
                 => /\ "error" \in DOMAIN last'.response
                    /\ UNCHANGED <<jobs, issued, files>>
       /\ (CheckResearchStatus(UNDEF) \/ GetResearchResult(UNDEF))
                 => /\ "error" \in DOMAIN last'.response
                    /\ UNCHANGED <<jobs, issued, files>>]_vars

\* C11: a tool call whose name is not one of the six registered operations
\* returns the error "Unknown tool: <name>", leaves the job store unchanged and
\* issues no upstream call.
C11_UnknownToolRejected ==
    [][\A name \in UnknownNames :
          UnknownTool(name)
              => /\ last'.response = [error |-> "Unknown tool: " \o name]
                 /\ UNCHANGED <<jobs, issued, files>>]_vars

\* an unregistered tool was called while a job was running
C11_Witness ==
    /\ last.name = "start_job"
    /\ last.response = [error |-> "Unknown tool: start_job"]
    /\ \E j \in DOMAIN jobs : jobs[j].status = "running" /\ task[j].pc = "get"

\* the response of the generate_articles call that `fanout` describes
ArticlesReply == last.response

ArticlesAnswered == last.name = "generate_articles" /\ fanout.state = "responded"

\* the generateArticle call that was made with the given model
CallWith(model) ==
    fanout.calls[CHOOSE v \in Range(Variants) : fanout.calls[v].model = model]

\* C12: generate_articles is all-or-nothing: when one of the two generation
\* calls fails the response is an {error} envelope holding neither article, and
\* a response that holds one article holds both.
C12_ArticlesAllOrNothing ==
    ArticlesAnswered =>
       /\ ("pro_article" \in DOMAIN ArticlesReply) <=> ("flash_article" \in DOMAIN ArticlesReply)
       /\ (\E v \in Range(Variants) : fanout.calls[v].status = "rejected")
             => DOMAIN ArticlesReply = {"error"}

\* the pro call had succeeded when the flash call failed
C12_Witness ==
    /\ ArticlesAnswered
    /\ fanout.order = <<"pro", "flash">>
    /\ fanout.calls["pro"].status = "resolved" /\ fanout.calls["pro"].text = "article A"
    /\ fanout.calls["flash"].status = "rejected"
    /\ ArticlesReply = [error |-> "503 unavailable"]

\* C13: generate_articles returns its response only after both generation
\* calls have settled; the response is never sent while a call is in flight.
C13_ResponseAfterBothSettled ==
    ArticlesAnswered => \A v \in Range(Variants) : fanout.calls[v].status # "pending"

\* C14: in a successful response pro_article is the output of the call made
\* with the pro model and flash_article that of the call made with the flash
\* model, whichever call finished first.
C14_ArticlesNamedByModel ==
    (ArticlesAnswered /\ "pro_article" \in DOMAIN ArticlesReply) =>
       /\ ArticlesReply.pro_article = ArticleOf(CallWith(Models.pro).text)
       /\ ArticlesReply.flash_article = ArticleOf(CallWith(Models.flash).text)

\* the flash call finished first, with a different article
C14_Witness ==
    /\ ArticlesAnswered
    /\ fanout.order = <<"flash", "pro">>
    /\ ArticlesReply = [pro_article |-> "article A", flash_article |-> "article B"]
    /\ CallWith(Models.pro).text = "article A"

\* the report of the generate_images call that `batch` describes
ImagesReply == last.response

ImagesAnswered == batch.state = "done" /\ last.name = "generate_images"

\* C15: for every combination of per-item outcomes the report of
\* generate_images satisfies successful + failed = total: no prompt is dropped.
C15_NoItemDropped ==
    ImagesAnswered => ImagesReply.successful + ImagesReply.failed = ImagesReply.total

\* C16: a failing item (upstream exception or file-write exception) does not
\* stop the batch: a generation call is issued for every later item and the
\* operation returns a report, not an {error} envelope.
C16_BatchNeverAborts ==
    /\ batch.state = "running" => batch.called = Len(batch.outcomes) + 1
    /\ batch.state = "done" =>
          /\ batch.called = Len(batch.prompts)
          /\ last.name = "generate_images"
          /\ "error" \notin DOMAIN ImagesReply
          /\ ImagesReply.status = "images_generated"

\* the first item failed upstream, the second on the file write, and the third
\* was still generated and saved
C16_Witness ==
    /\ ImagesAnswered
    /\ batch.outcomes = <<"threw", "write_failed", "saved">>
    /\ batch.called = 3
    /\ ImagesReply.failed = 2 /\ ImagesReply.successful = 1

\* the prompts of the batch have distinct filenames
DistinctFilenames ==
    \A i, j \in DOMAIN batch.prompts :
       i # j => batch.prompts[i].filename # batch.prompts[j].filename

\* the items for which the upstream call threw
F == {i \in DOMAIN batch.outcomes : batch.outcomes[i] = "threw"}

\* the report the claim describes for the set F of failed items
ReportMatchesF ==
    LET N == Len(batch.prompts)
    IN  /\ ImagesReply.total = N
        /\ ImagesReply.successful = N - Cardinality(F)
        /\ ImagesReply.failed = Cardinality(F)
        /\ Len(ImagesReply.errors) = Cardinality(F)
        /\ {ImagesReply.errors[i].filename : i \in DOMAIN ImagesReply.errors}
              = {batch.prompts[i].filename : i \in F}
        /\ Len(ImagesReply.images) = N - Cardinality(F)
        /\ Range(ImagesReply.images)
              = {batch.outputDir \o "/" \o batch.prompts[i].filename
                   : i \in DOMAIN batch.prompts \ F}

\* C17 as stated: N items with distinct filenames, the upstream call throws
\* exactly for the items of F and returns an image for all others; then
\* total = N, successful = N - |F|, failed = |F|, errors names exactly F and
\* images holds exactly output_dir/filename of the other items.
C17_ReportMatchesUpstream ==
    (/\ ImagesAnswered
     /\ DistinctFilenames
     /\ \A i \in DOMAIN batch.outcomes :
           batch.outcomes[i] \in {"threw", "saved", "write_failed"})
       => ReportMatchesF

\* C17 amended: the same, when moreover every returned image is written to
\* disk without an exception.
C17_ReportMatchesUpstreamAndDisk ==
    (/\ ImagesAnswered
     /\ DistinctFilenames
     /\ \A i \in DOMAIN batch.outcomes : batch.outcomes[i] \in {"threw", "saved"})
       => ReportMatchesF

\* three items, the second of which failed upstream
C17_Witness ==
    /\ ImagesAnswered
    /\ DistinctFilenames
    /\ batch.outcomes = <<"saved", "threw", "saved">>
    /\ ImagesReply.total = 3 /\ ImagesReply.successful = 2 /\ ImagesReply.failed = 1
    /\ ImagesReply.errors[1].filename = batch.prompts[2].filename

\* C18: within one generate_images batch no destination path is written
\* twice, for any list of prompts.
C18_DestinationWrittenOnce ==
    batch.state # "idle" =>
    \A i, j \in DOMAIN batch.writes : i # j => batch.writes[i] # batch.writes[j]

\* the arguments and the result of the assemble_markdown call in `last`
AssembleAnswered == last.name = "assemble_markdown" /\ last.args.images.defined

Draft == last.args.draft

Imgs == last.args.images.list

Out == last.response.assembled_markdown

\* the image lines the assembler can insert
HeroLinks == {HeroLink(path) : path \in Range(ImagePaths(MaxImages))}

SectionLinks ==
    {SectionLink(i, path) : i \in 0..(4 * MaxSegments + MaxImages),
                            path \in Range(ImagePaths(MaxImages))}

IsSectionLink(c) == c \in SectionLinks

RECURSIVE StripLinks(_)
\* doc without the inserted image lines (the link and the blank line after it)
StripLinks(doc) ==
    IF doc = <<>> THEN <<>>
    ELSE IF Head(doc) \in HeroLinks \cup SectionLinks
      THEN IF Len(doc) >= 3 /\ doc[2] = "\n" /\ doc[3] = "\n"
             THEN StripLinks(SubSeq(doc, 4, Len(doc)))
             ELSE StripLinks(Tail(doc))
      ELSE <<Head(doc)>> \o StripLinks(Tail(doc))

\* C19: for every draft and every non-empty image list, deleting the inserted
\* image lines from the output of assemble_markdown gives back the draft, every
\* "## " heading marker included.
C19_DraftPreserved ==
    (AssembleAnswered /\ Len(Imgs) > 0) => StripLinks(Out) = Draft

RECURSIVE SortedSeq(_)
\* the numbers of S in increasing order
SortedSeq(S) ==
    IF S = {} THEN <<>>
    ELSE LET least == CHOOSE p \in S : \A q \in S : p <= q
         IN  <<least>> \o SortedSeq(S \ {least})

\* positions of a newline followed by "## " in the draft
BoundariesOfDraft ==
    SortedSeq({p \in 1..Len(Draft) :
                 /\ p + 3 <= Len(Draft)
                 /\ SubSeq(Draft, p, p + 3) = <<"\n", "#", "#", " ">>})

\* the document the assembler scans: the draft below the hero image line
UnderHero == <<HeroLink(Imgs[1]), "\n", "\n">> \o Draft

RECURSIVE Matches(_, _)
\* positions, left to right and without overlap, of a newline followed by "##"
\* and a whitespace character
Matches(doc, from) ==
    LET p == FirstMatch(doc, from)
    IN  IF p = 0 THEN <<>> ELSE <<p>> \o Matches(doc, p + 4)

\* position of the element c in doc
PositionOf(doc, c) == CHOOSE q \in DOMAIN doc : doc[q] = c

\* exactly min(k - 1, b) of the non-hero images are inserted, image j + 1 on
\* its own line right before the heading of the j-th boundary of doc
InsertedAt(doc, bs) ==
    LET m == Min(Len(Imgs) - 1, Len(bs))
    IN  /\ SelectSeq(Out, IsSectionLink) = [j \in 1..m |-> SectionLink(j, Imgs[j + 1])]
        /\ \A j \in 1..m :
              LET q == PositionOf(Out, SectionLink(j, Imgs[j + 1]))
              IN  /\ Out[q - 1] = "\n"
                  /\ SubSeq(Out, q + 1, q + 5) = <<"\n", "\n", "#", "#", " ">>
                  /\ bs[j] + 4 <= Len(doc) => Out[q + 6] = doc[bs[j] + 4]

C21_HeroBeforeFirstContent ==
    (AssembleAnswered /\ Len(Imgs) >= 1) =>
       /\ SubSeq(Out, 1, 3) = <<HeroLink(Imgs[1]), "\n", "\n">>
       /\ Len(Draft) > 0 => (Len(Out) >= 4 /\ Out[4] = Draft[1])

\* C22: with an empty image list assemble_markdown returns the draft unchanged,
\* for every draft.
C22_NoImagesNoChange ==
    (AssembleAnswered /\ Len(Imgs) = 0) => Out = Draft

\* a draft with two section boundaries was assembled with no image
C22_Witness ==
    /\ AssembleAnswered
    /\ Imgs = <<>>
    /\ Draft = <<"Intro", "\n", "#", "#", " ", "Title", "\n", "#", "#", "\t", "Title">>
    /\ Out = Draft

\* an upstream status that is neither completed nor failed
InProgress == {r \in GetResults : r.status \notin {"completed", "failed"}}

\* C24: the task runner imposes no timeout of its own: a status check that
\* reports neither completed nor failed leaves the job running; the server
\* never marks such a job failed itself.
C24_NoTimeoutOfItsOwn ==
    [][\A j \in JobIds, r \in InProgress, io \in IoOutcomes :
          (j \in DOMAIN jobs /\ jobs[j].status = "running" /\ GetResolves(j, r, io))
             => jobs'[j].status = "running"]_vars

\* C25: check_research_status and get_research_result are pure reads: for
\* known and unknown job ids they leave the job store unchanged and issue no
\* upstream call.
C25_QueriesArePureReads ==
    [][\A jobId \in JobIdArgs :
          (CheckResearchStatus(jobId) \/ GetResearchResult(jobId))
             => UNCHANGED <<jobs, issued, files>>]_vars

\* the result of a complete job was fetched and the job is still stored
C25_Witness ==
    /\ last.name = "get_research_result"
    /\ "result" \in DOMAIN last.response
    /\ \E j \in DOMAIN jobs : jobs[j].status = "complete" /\ polled[j] = "terminal"

\* C26: every start_deep_research call returns a job_id different from the id
\* of every job already in the store, so no stored job is overwritten.
C26_FreshJobId ==
    [][\A spec \in QuerySpecs :
          StartDeepResearchAnyId(spec, UNDEF)
             => /\ last'.response.job_id \notin DOMAIN jobs
                /\ \A j \in DOMAIN jobs : jobs'[j] = jobs[j]]_vars

\* the interactions.create calls issued so far
Creates == {c \in issued : c.api = "interactions.create"}

\* C27: the query sent upstream depends only on the research_brief: two
\* submissions with the same research_brief and different article_specs send
\* the same query.
C27_QueryFromBriefOnly ==
    \A c1, c2 \in Creates :
       c1.spec.research_brief = c2.spec.research_brief => c1.query = c2.query

\* two submissions with one brief and different article constraints, and one
\* with another brief
C27_Witness ==
    \E c1, c2, c3 \in Creates :
       /\ c1.spec.research_brief = c2.spec.research_brief
       /\ c1.spec.article_specs # c2.spec.article_specs
       /\ c1.query = c2.query
       /\ c3.spec.research_brief # c1.spec.research_brief
       /\ c3.query # c1.query

\* C28: a caller that polls check_research_status until it sees a terminal
\* status, and asks for the result only after it saw complete, gets the result:
\* a job seen complete stays complete, and get_research_result answers neither
\* "Job not found" nor "Job not complete" for it.
C28_ProtocolGetsResult ==
    [][\A j \in JobIds :
          (j \in DOMAIN jobs /\ polled[j] # "never" /\ jobs[j].status = "complete")
             => /\ j \in DOMAIN jobs' /\ jobs'[j].status = "complete"
                /\ GetResearchResult(j) => "error" \notin DOMAIN last'.response]_vars

\* the caller saw the job complete on a poll and then fetched its report
C28_Witness ==
    \E j \in DOMAIN jobs :
       /\ polled[j] = "terminal"
       /\ writeLog[j] = <<"complete">>
       /\ last = [name |-> "get_research_result", response |-> [result |-> "report B"]]

\* C29: provided each upstream call returns, every job eventually reaches a
\* terminal state: performDeepResearch makes at most maxPolls status checks for
\* a job, and when the last of them reports neither completed nor failed the
\* job becomes failed with error "Research timed out".
C29_EveryJobTerminates ==
    /\ [](\A j \in DOMAIN task : task[j].pollCount <= maxPolls)
    /\ [][\A j \in JobIds, r \in InProgress, io \in IoOutcomes :
            (GetResolves(j, r, io) /\ task[j].pollCount = maxPolls)
               => /\ jobs'[j].status = "failed"
                  /\ jobs'[j].error = "Research timed out"]_vars
    /\ \A j \in JobIds :
          [](j \in DOMAIN jobs => <>(j \in DOMAIN jobs /\ jobs[j].status \in Terminal))

\* a job whose every status check said in progress has timed out
C29_Witness ==
    \E j \in DOMAIN jobs :
       /\ task[j].cause = "timeout"
       /\ jobs[j].status = "failed"
       /\ jobs[j].error = "Research timed out"

\* C30: background work does not block request handling and is not blocked by
\* it: whatever is in flight, check_research_status and get_research_result
\* can be handled for every stored job and answer from the store as it is,
\* and a job waiting for its status check can have it take effect at once.
C30_QueriesNeverWait ==
    /\ [](\A j \in DOMAIN jobs :
            /\ ENABLED CheckResearchStatus(j)
            /\ ENABLED GetResearchResult(j)
            /\ task[j].pc = "get" => ENABLED (\E r \in GetResults : GetResolves(j, r, "ok")))
    /\ [][\A j \in JobIds :
            /\ (j \in DOMAIN jobs /\ CheckResearchStatus(j))
                  => last'.response.status = jobs[j].status
            /\ (j \in DOMAIN jobs /\ GetResearchResult(j))
                  => (jobs[j].status = "complete") = ("result" \in DOMAIN last'.response)]_vars

\* a status query was answered while the job was running and both a
\* generate_articles and a generate_images call were waiting upstream
C30_Witness ==
    /\ fanout.state = "running"
    /\ batch.state = "running"
    /\ \E j \in DOMAIN jobs : jobs[j].status = "running" /\ task[j].pc = "get"
    /\ last.name = "check_research_status"
    /\ last.response.status = "running"

C31_NoExceptionEscapes ==
    /\ [](~unhandled)
    /\ [][\A spec \in Specs, outputPath \in OutputPaths :
            (StartDeepResearch(spec, outputPath) /\ QueryThrows(spec))
               => DOMAIN last'.response = {"error"}]_vars

\* C32: get_research_result on a failed job returns the error "Job not
\* complete" with status failed at every later call, never a result, a
\* saved_to value or "Job not found"; the cause of the failure is told by
\* check_research_status only.
C32_FailedJobNotReady ==
    [][\A j \in JobIds :
          (j \in DOMAIN jobs /\ jobs[j].status = "failed")
             => /\ j \in DOMAIN jobs' /\ jobs'[j].status = "failed"
                /\ GetResearchResult(j) => last'.response = NotComplete("failed")
                /\ (CheckResearchStatus(j) /\ Truthy(jobs[j].error))
                      => last'.response.error = jobs[j].error]_vars

\* the result of a job that the upstream service reported failed was asked for
C32_Witness ==
    /\ last = [name |-> "get_research_result", response |-> NotComplete("failed")]
    /\ \E j \in DOMAIN jobs :
          /\ jobs[j].status = "failed"
          /\ jobs[j].error = "Research failed: agent error"
          /\ polled[j] = "terminal"

\* C33: jobs are isolated from each other: with several jobs in flight, a step
\* in which one job completes, fails or times out changes only that job's
\* status, result and error; the records of all other jobs and the set of
\* stored job_ids stay as they were
C33_JobsIsolated ==
    [][\A j \in DOMAIN jobs :
          (j \in DOMAIN jobs' /\ jobs'[j] # jobs[j] /\ jobs'[j].status \in Terminal)
             => /\ DOMAIN jobs' = DOMAIN jobs
                /\ \A k \in DOMAIN jobs \ {j} : jobs'[k] = jobs[k]
                /\ jobs'[j].id = jobs[j].id
                /\ jobs'[j].outputPath = jobs[j].outputPath
                /\ jobs'[j].interactionId = jobs[j].interactionId]_vars

C33_Witness ==
    /\ DOMAIN jobs = {"job_1", "job_2"}
    /\ jobs["job_1"].status = "failed" /\ jobs["job_1"].error = "Research timed out"
    /\ task["job_1"].cause = "timeout"
    /\ jobs["job_2"].status = "running" /\ jobs["job_2"].error = UNDEF
    /\ jobs["job_2"].interactionId = "interaction"
    /\ task["job_2"].pc = "get" /\ task["job_2"].pollCount = 1

\* the prompts of the batch whose image was saved, by increasing index
SavedIndices ==
    SortedSeq({i \in DOMAIN batch.outcomes : batch.outcomes[i] = "saved"})

\* the paths of the saved prompts in the input order of the prompts
SavedPaths ==
    [k \in 1..Len(SavedIndices) |->
        Filepath(batch.outputDir, batch.prompts[SavedIndices[k]].filename)]

\* C34: in every generate_images report successful = length of images, failed
\* = length of errors, total = number of submitted prompts, successful + failed
\* <= total, at most one file is saved per prompt, and images lists the saved
\* paths in the input order of their prompts
C34_ReportShape ==
    ImagesAnswered =>
       /\ ImagesReply.successful = Len(ImagesReply.images)
       /\ ImagesReply.failed = Len(ImagesReply.errors)
       /\ ImagesReply.total = Len(batch.prompts)
       /\ ImagesReply.successful + ImagesReply.failed <= ImagesReply.total
       /\ Len(batch.outcomes) = Len(batch.prompts)
       /\ batch.writes = SavedPaths
       /\ ImagesReply.images = SavedPaths

C34_Witness ==
    /\ ImagesAnswered
    /\ batch.outcomes = <<"saved", "no_candidates", "saved">>
    /\ batch.prompts[1].filename # batch.prompts[3].filename
    /\ ImagesReply.images = <<Filepath(batch.outputDir, batch.prompts[1].filename),
                              Filepath(batch.outputDir, batch.prompts[3].filename)>>
    /\ ImagesReply.successful = 2 /\ ImagesReply.failed = 0 /\ ImagesReply.total = 3

\* the statuses a stored job or a response can carry once `pending` is left out
Observable == {"running"} \cup Terminal

\* C35: the status pending is never observable: no check_research_status or
\* get_research_result response reports it, every stored job has status
\* running, complete or failed, a job enters the store as running (or, its task
\* having thrown before the handler returned, as failed) and its status only
\* ever changes to complete or failed
C35_PendingNeverObservable ==
    /\ [](/\ \A j \in DOMAIN jobs : jobs[j].status \in Observable
          /\ (/\ last.name \in {"check_research_status", "get_research_result"}
               /\ "status" \in DOMAIN last.response)
                => last.response.status \in Observable)
    /\ [][\A j \in DOMAIN jobs' :
             /\ j \notin DOMAIN jobs => jobs'[j].status \in {"running", "failed"}
             /\ (j \in DOMAIN jobs /\ jobs'[j].status # jobs[j].status)
                   => jobs'[j].status \in Terminal]_vars

C35_Witness ==
    /\ last.name = "check_research_status"
    /\ \E j \in DOMAIN jobs :
          /\ IsStatusReport(j)
          /\ last.response.status = "running"
          /\ jobs[j].status = "running"
          /\ task[j].pc = "sleep" /\ task[j].pollCount = 1
          /\ polled[j] = "never"

====
